---- MODULE Spec2Model ----
(***************************************************************************)
(* Model of nyc_events_calendar.py: the Event Fetcher (fetch_events), the  *)
(* Calendar Builder (build_calendar) and the top-level run (main).         *)
(*                                                                         *)
(* A text is a sequence of one-character strings, a Python dict is a       *)
(* function whose domain is the set of keys that are present, and the      *)
(* remote API is a scripted sequence of responses, one per page number.    *)
(***************************************************************************)
EXTENDS Integers, Sequences, FiniteSets, TLC

\* ---------------------------------------------------------------- bounds
MaxApiPages == 6        \* longest scripted API answer, in pages
MaxApiPagesEnv == 1     \* the same, in the runs that vary the environment
MaxPagesDirect == 2     \* largest max_pages of a direct fetch_events call
MaxExtra == 1           \* an oversize page holds at most PageSize + MaxExtra records
MaxEnvLen == 1          \* longest CATEGORIES / BOROUGHS text
MaxEvents == 3          \* longest list of a direct build_calendar call

\* ----------------------------------------------------- program constants
DefaultMaxPages == 5    \* max_pages: int = 5
PageSize == 10          \* if len(events) < 10: break

None == "None"
NonStr == "<non-str>"   \* stands for a list element that is not a string

\* ------------------------------------------------------------ dict access
\* dict.get(key, default)
Get(d, key, default) == IF key \in DOMAIN d THEN d[key] ELSE default

\* Python truthiness of a string or None
Truthy(v) == v \notin {None, ""}

\* d with d[key] = val added
With(d, key, val) ==
  [k \in (DOMAIN d) \cup {key} |-> IF k = key THEN val ELSE d[k]]

\* ------------------------------------------------- parse_comma_separated
EnvChars == {"a", ",", " "}

RECURSIVE SeqsUpTo(_, _)
SeqsUpTo(S, n) ==
  IF n = 0 THEN {<<>>}
  ELSE LET shorter == SeqsUpTo(S, n - 1)
       IN  shorter \cup {Append(s, c) : s \in {t \in shorter : Len(t) = n - 1}, c \in S}

Unset == [set |-> FALSE, val |-> <<>>]
EnvValues == {Unset} \cup {[set |-> TRUE, val |-> s] : s \in SeqsUpTo(EnvChars, MaxEnvLen)}

\* value.split(',')
RECURSIVE Split(_)
Split(s) ==
  IF s = <<>> THEN << <<>> >>
  ELSE IF Head(s) = "," THEN << <<>> >> \o Split(Tail(s))
  ELSE LET rest == Split(Tail(s))
       IN  << <<Head(s)>> \o Head(rest) >> \o Tail(rest)

RECURSIVE LStrip(_)
LStrip(s) == IF s # <<>> /\ Head(s) = " " THEN LStrip(Tail(s)) ELSE s

RECURSIVE RStrip(_)
RStrip(s) ==
  IF s # <<>> /\ s[Len(s)] = " " THEN RStrip(SubSeq(s, 1, Len(s) - 1)) ELSE s

\* item.strip()
Strip(s) == RStrip(LStrip(s))

RECURSIVE KeepNonEmptyStripped(_)
KeepNonEmptyStripped(items) ==
  IF items = <<>> THEN <<>>
  ELSE (IF Strip(Head(items)) # <<>> THEN <<Strip(Head(items))>> ELSE <<>>)
       \o KeepNonEmptyStripped(Tail(items))

\* os.getenv(name) followed by parse_comma_separated(value)
parse_comma_separated(value) ==
  IF ~value.set \/ value.val = <<>> THEN <<>>
  ELSE KeepNonEmptyStripped(Split(value.val))

\* ------------------------------------------------------ the scripted API
\* Shapes of the raw event records the API serves; see build_calendar for
\* the fields.  The first NumCleanShapes shapes map without error.
GoodCats == <<"art", "free">>
Shapes == <<
  [name |-> "n", startDate |-> "T1", endDate |-> "T2", location |-> "l",
   description |-> "d", categories |-> GoodCats],
  [name |-> "n"],
  [start |-> "T1", end |-> "T2", categories |-> <<"art">>],
  [name |-> "n", endDate |-> "T1"],
  [name |-> "n", startDate |-> "", start |-> "T2"],
  [name |-> "n", startDate |-> "T1", start |-> "T2", endDate |-> "T2", end |-> "T1"],
  [name |-> "n", startDate |-> "bad"],
  [name |-> "n", categories |-> <<"art", NonStr>>],
  [name |-> "n", endDate |-> "bad", location |-> "l"]
>>
NumCleanShapes == 6

\* record i of page p: mix = 0 serves clean shapes only
ApiRecord(mix, p, i) ==
  LET n == IF mix = 0 THEN NumCleanShapes ELSE Len(Shapes)
  IN  With(Shapes[((p + i) % n) + 1], "id", <<p, i>>)

\* the records the API holds, by mix, page and position
RecordTable ==
  [mix \in 0..1 |-> [p \in 1..(MaxApiPages + 1) |->
     [i \in 1..(PageSize + MaxExtra) |-> ApiRecord(mix, p, i)]]]

ApiRecords(mix, p, n) == SubSeq(RecordTable[mix][p], 1, n)

\* status 0 stands for requests.get raising (no response at all)
TransportFailure == 0
ErrorStatuses == {401, 500, 204}
\* bodies of a 200 response: not JSON, JSON but not an object, an object
\* without "events", "events": null, "events": [...]
Bodies200 == {"notjson", "notobject", "nokey", "null", "events"}

ShortSizes == {0, 3, PageSize - 1}

Resp(status, body, n) == [status |-> status, body |-> body, n |-> n]

FullResponses == {Resp(200, "events", n) : n \in PageSize..(PageSize + MaxExtra)}
\* k pages of exactly PageSize records
Plain(k) == [i \in 1..k |-> Resp(200, "events", PageSize)]
\* at most n full pages, at most one of them oversize
FullRuns(n) ==
  {Plain(k) : k \in 0..n}
    \cup UNION {{[Plain(k) EXCEPT ![j] = Resp(200, "events", PageSize + x)] :
                   j \in 1..k, x \in 1..MaxExtra} : k \in 1..n}
LastResponses ==
  {Resp(TransportFailure, "none", 0)}
    \cup {Resp(s, "text", 0) : s \in ErrorStatuses}
    \cup {Resp(200, b, 0) : b \in Bodies200 \ {"events"}}
    \cup {Resp(200, "events", n) : n \in ShortSizes}

\* scripts of at most n pages: full pages, then possibly one page that ends
\* the pagination
Scripts(n) ==
  FullRuns(n) \cup {Append(s, l) : s \in FullRuns(n - 1), l \in LastResponses}

NoApi == [pages |-> <<>>, mix |-> 0]
\* the APIs of the runs of main, of the runs of main that vary the
\* environment, and of the direct calls of fetch_events
ApisMain == {[pages |-> s, mix |-> m] : s \in Scripts(MaxApiPages), m \in 0..1}
ApisEnv == {[pages |-> s, mix |-> 1] : s \in Scripts(MaxApiPagesEnv)}

\* the answer to a request for page p; past the script there is no data
Respond(a, p) == IF p \in 1..Len(a.pages) THEN a.pages[p] ELSE Resp(200, "events", 0)

VARIABLES
  caller,       \* the entry point of this run: main, fetch_events, build_calendar
  pc,           \* position of the run
  env,          \* the process environment
  api,          \* the scripted remote API
  max_pages, categories, boroughs,   \* arguments of fetch_events
  all_events, page_number,           \* locals of fetch_events
  requests,     \* the requests received by the API, in order (their params)
  events,       \* main's events / the argument of build_calendar
  cal,          \* the entries of the Calendar built by build_calendar
  files         \* the documents written to the output path, in order

vars == <<caller, pc, env, api, max_pages, categories, boroughs,
          all_events, page_number, requests, events, cal, files>>

StartParam == "startDate %m/%d/%Y %H:%M"
EndParam == "endDate %m/%d/%Y %H:%M"

\* mutation of Params: the filter keys are sent even when the lists are empty
Params_AlwaysFilters(cats, bors, page) ==
  [startDate |-> StartParam, endDate |-> EndParam, sort |-> "DATE",
   keywords |-> "free", pageNumber |-> page, categories |-> cats, boroughs |-> bors]

\* params of the request for the current page
Params(cats, bors, page) ==
  LET base == [startDate |-> StartParam, endDate |-> EndParam, sort |-> "DATE",
               keywords |-> "free", pageNumber |-> page]
      withCats == IF cats # <<>> THEN With(base, "categories", cats) ELSE base
  IN  IF bors # <<>> THEN With(withCats, "boroughs", bors) ELSE withCats

\* mutation of LoopCondition: the ceiling is tested off by one
LoopCondition_OffByOne(page, ceiling) == page <= ceiling + 1

\* the while condition of fetch_events
LoopCondition(page, ceiling) == page <= ceiling

\* mutation of IsShort: a page of exactly 10 records counts as the last one
IsShort_Inclusive(evs) == Len(evs) <= PageSize

\* len(events) < 10
IsShort(evs) == Len(evs) < PageSize

\* mutation of Extend: the page is put in front of the result
Extend_Prepend(list, more) == more \o list

\* all_events.extend(events)
Extend(list, more) == list \o more

\* fetch_events returns value to its caller
Return(value) ==
  /\ events' = value
  /\ pc' = IF caller = "main" THEN "main_fetched" ELSE "done"

\* an exception leaves the running function; main's caller exits with 1
Raise == pc' = IF caller = "main" THEN "exit1" ELSE "raised"

InLoop == pc = "fetch_loop" /\ LoopCondition(page_number, max_pages)

Send == requests' = Append(requests, Params(categories, boroughs, page_number))

Response == Respond(api, page_number)

\* the events list of a parsed 200 response (data.get("events", []))
EventsOf(resp) ==
  IF resp.body = "events" THEN ApiRecords(api.mix, page_number, resp.n) ELSE <<>>

\* mutation of LoopEnd: reaching the ceiling is reported as an error
LoopEnd_Raise ==
  /\ pc = "fetch_loop" /\ ~LoopCondition(page_number, max_pages)
  /\ Raise
  /\ UNCHANGED <<caller, env, api, max_pages, categories, boroughs,
                 all_events, page_number, requests, events, cal, files>>

\* while page_number <= max_pages fails: return all_events
LoopEnd ==
  /\ pc = "fetch_loop" /\ ~LoopCondition(page_number, max_pages)
  /\ Return(all_events)
  /\ UNCHANGED <<caller, env, api, max_pages, categories, boroughs,
                 all_events, page_number, requests, cal, files>>

\* mutation of TransportError: the loop goes on with the next page
TransportError_Continue ==
  /\ InLoop /\ Response.status = TransportFailure
  /\ Send
  /\ page_number' = page_number + 1
  /\ UNCHANGED <<caller, pc, env, api, max_pages, categories, boroughs,
                 all_events, events, cal, files>>

\* requests.get raises: log, break
TransportError ==
  /\ InLoop /\ Response.status = TransportFailure
  /\ Send
  /\ Return(all_events)
  /\ UNCHANGED <<caller, env, api, max_pages, categories, boroughs,
                 all_events, page_number, cal, files>>

\* mutation of Unauthorized: the loop goes on with the next page
Unauthorized_Continue ==
  /\ InLoop /\ Response.status = 401
  /\ Send
  /\ page_number' = page_number + 1
  /\ UNCHANGED <<caller, pc, env, api, max_pages, categories, boroughs,
                 all_events, events, cal, files>>

\* status 401: log, break
Unauthorized ==
  /\ InLoop /\ Response.status = 401
  /\ Send
  /\ Return(all_events)
  /\ UNCHANGED <<caller, env, api, max_pages, categories, boroughs,
                 all_events, page_number, cal, files>>

\* any other status but 200: log, break
BadStatus ==
  /\ InLoop /\ Response.status \notin {TransportFailure, 401, 200}
  /\ Send
  /\ Return(all_events)
  /\ UNCHANGED <<caller, env, api, max_pages, categories, boroughs,
                 all_events, page_number, cal, files>>

\* resp.json() or data.get raises: nothing catches it inside fetch_events
BadBody ==
  /\ InLoop /\ Response.status = 200 /\ Response.body \in {"notjson", "notobject"}
  /\ Send
  /\ Raise
  /\ UNCHANGED <<caller, env, api, max_pages, categories, boroughs,
                 all_events, page_number, events, cal, files>>

\* mutation of NoEvents: an empty page is skipped, the loop goes on
NoEvents_Continue ==
  /\ InLoop /\ Response.status = 200
  /\ \/ Response.body \in {"nokey", "null"}
     \/ Response.body = "events" /\ EventsOf(Response) = <<>>
  /\ Send
  /\ page_number' = page_number + 1
  /\ UNCHANGED <<caller, pc, env, api, max_pages, categories, boroughs,
                 all_events, events, cal, files>>

\* if not events: break
NoEvents ==
  /\ InLoop /\ Response.status = 200
  /\ \/ Response.body \in {"nokey", "null"}
     \/ Response.body = "events" /\ EventsOf(Response) = <<>>
  /\ Send
  /\ Return(all_events)
  /\ UNCHANGED <<caller, env, api, max_pages, categories, boroughs,
                 all_events, page_number, cal, files>>

\* all_events.extend(events); fewer than 10 records: break
ShortPage ==
  /\ InLoop /\ Response.status = 200 /\ Response.body = "events"
  /\ EventsOf(Response) # <<>>
  /\ IsShort(EventsOf(Response))
  /\ Send
  /\ all_events' = Extend(all_events, EventsOf(Response))
  /\ Return(all_events')
  /\ UNCHANGED <<caller, env, api, max_pages, categories, boroughs,
                 page_number, cal, files>>

\* mutation of FullPage: the page counter is not advanced
FullPage_NoIncrement ==
  /\ InLoop /\ Response.status = 200 /\ Response.body = "events"
  /\ EventsOf(Response) # <<>>
  /\ ~IsShort(EventsOf(Response))
  /\ Send
  /\ all_events' = Extend(all_events, EventsOf(Response))
  /\ UNCHANGED <<caller, pc, env, api, max_pages, categories, boroughs,
                 page_number, events, cal, files>>

\* mutation of FullPage: the page number advances by two
FullPage_SkipPage ==
  /\ InLoop /\ Response.status = 200 /\ Response.body = "events"
  /\ EventsOf(Response) # <<>>
  /\ ~IsShort(EventsOf(Response))
  /\ Send
  /\ all_events' = Extend(all_events, EventsOf(Response))
  /\ page_number' = page_number + 2
  /\ UNCHANGED <<caller, pc, env, api, max_pages, categories, boroughs,
                 events, cal, files>>

\* all_events.extend(events); page_number += 1
FullPage ==
  /\ InLoop /\ Response.status = 200 /\ Response.body = "events"
  /\ EventsOf(Response) # <<>>
  /\ ~IsShort(EventsOf(Response))
  /\ Send
  /\ all_events' = Extend(all_events, EventsOf(Response))
  /\ page_number' = page_number + 1
  /\ UNCHANGED <<caller, pc, env, api, max_pages, categories, boroughs,
                 events, cal, files>>

fetch_events ==
  \/ LoopEnd \/ TransportError \/ Unauthorized \/ BadStatus
  \/ BadBody \/ NoEvents \/ ShortPage \/ FullPage

\* ------------------------------------------------------- build_calendar
IsTime(v) == v \in {"T1", "T2"}
Before(a, b) == a = "T1" /\ b = "T2"

\* mutation of Or: no fallback on the alternate value
Or_NoFallback(a, b) == a

\* a or b
Or(a, b) == IF Truthy(a) THEN a ELSE b

\* ",".join(list): raises TypeError when an element is not a string
Joinable(list) == \A i \in 1..Len(list) : list[i] # NonStr

\* mutation of Join: a separator follows every element, the last one too
RECURSIVE Join_Trailing(_)
Join_Trailing(list) ==
  IF list = <<>> THEN "" ELSE Head(list) \o "," \o Join_Trailing(Tail(list))

RECURSIVE Join(_)
Join(list) ==
  IF list = <<>> THEN ""
  ELSE IF Len(list) = 1 THEN Head(list)
  ELSE Head(list) \o "," \o Join(Tail(list))

\* ev = Event()
NewEvent(uid) ==
  [uid |-> uid, name |-> None, begin |-> None, end |-> None, location |-> None,
   description |-> None, categories |-> None]

StartOf(item) == Or(Get(item, "startDate", None), Get(item, "start", None))
EndOf(item) == Or(Get(item, "endDate", None), Get(item, "end", None))

\* mutation of BeginRaises: the start is read with item["startDate"], which
\* raises KeyError on a record without that field
BeginRaises_KeyError(item) ==
  \/ "startDate" \notin DOMAIN item
  \/ Truthy(StartOf(item)) /\ ~IsTime(StartOf(item))

\* ev.begin = start raises on a text that is no timestamp
BeginRaises(item) == Truthy(StartOf(item)) /\ ~IsTime(StartOf(item))

\* ev.end = end raises on a text that is no timestamp and on an end that
\* precedes the begin already set
EndRaises(item) ==
  /\ Truthy(EndOf(item))
  /\ \/ ~IsTime(EndOf(item))
     \/ Truthy(StartOf(item)) /\ Before(EndOf(item), StartOf(item))

JoinRaises(item) == ~Joinable(Get(item, "categories", <<>>))

\* the body of the try block up to, not including, cal.events.add(ev):
\* ok tells whether it ran to its end, ev is the Event as far as it got
Construct(item, uid) ==
  LET e0 == NewEvent(uid)
      e1 == [e0 EXCEPT !.name = Get(item, "name", "Unnamed Event")]
      e2 == IF Truthy(StartOf(item)) THEN [e1 EXCEPT !.begin = StartOf(item)] ELSE e1
      e3 == IF Truthy(EndOf(item)) THEN [e2 EXCEPT !.end = EndOf(item)] ELSE e2
      e4 == [e3 EXCEPT !.location = Get(item, "location", ""),
                       !.description = Get(item, "description", "")]
      e5 == [e4 EXCEPT !.categories = Join(Get(item, "categories", <<>>))]
  IN  IF BeginRaises(item) THEN [ok |-> FALSE, ev |-> e1]
      ELSE IF EndRaises(item) THEN [ok |-> FALSE, ev |-> e2]
      ELSE IF JoinRaises(item) THEN [ok |-> FALSE, ev |-> e4]
      ELSE [ok |-> TRUE, ev |-> e5]

\* mutation of LoopBody: the calendar is created anew in every pass
LoopBody_FreshCalendar(acc, item, uid) ==
  IF Construct(item, uid).ok THEN {Construct(item, uid).ev} ELSE {}

\* mutation of LoopBody: the Event is added before its fields are set
LoopBody_AddFirst(acc, item, uid) == acc \cup {Construct(item, uid).ev}

\* one pass of the for loop: try ... cal.events.add(ev) except ... continue
LoopBody(acc, item, uid) ==
  IF Construct(item, uid).ok THEN acc \cup {Construct(item, uid).ev} ELSE acc

\* for item in events, from position i on
RECURSIVE ForLoop(_, _, _)
ForLoop(evs, i, acc) ==
  IF i > Len(evs) THEN acc
  ELSE ForLoop(evs, i + 1, LoopBody(acc, evs[i], i))

\* f.writelines(cal): the document lists the entries of the calendar
Serialize(c) == {e.uid : e \in c}

\* mutation of build_calendar: with no event to write the function returns
\* before it opens the output file
build_calendar_SkipEmpty ==
  /\ pc = "build"
  /\ cal' = ForLoop(events, 1, {})
  /\ files' = IF events = <<>> THEN files ELSE Append(files, Serialize(cal'))
  /\ pc' = "done"
  /\ UNCHANGED <<caller, env, api, max_pages, categories, boroughs,
                 all_events, page_number, requests, events>>

\* build_calendar(events, output_path)
build_calendar ==
  /\ pc = "build"
  /\ cal' = ForLoop(events, 1, {})
  /\ files' = Append(files, Serialize(cal'))
  /\ pc' = "done"
  /\ UNCHANGED <<caller, env, api, max_pages, categories, boroughs,
                 all_events, page_number, requests, events>>

\* ----------------------------------------------------------------- main
SomeKey == [set |-> TRUE, val |-> <<"k">>]
SomeFilter == [set |-> TRUE, val |-> <<"a">>]

\* mutation of MissingKey: the missing key is replaced by a default and the
\* run goes on
MissingKey_Default ==
  /\ pc = "main_start" /\ ~env.NYC_API_KEY.set
  /\ categories' = parse_comma_separated(env.CATEGORIES)
  /\ boroughs' = parse_comma_separated(env.BOROUGHS)
  /\ max_pages' = DefaultMaxPages
  /\ all_events' = <<>>
  /\ page_number' = 1
  /\ pc' = "fetch_loop"
  /\ UNCHANGED <<caller, env, api, requests, events, cal, files>>

\* get_env_variable("NYC_API_KEY") raises RuntimeError
MissingKey ==
  /\ pc = "main_start" /\ ~env.NYC_API_KEY.set
  /\ Raise
  /\ UNCHANGED <<caller, env, api, max_pages, categories, boroughs,
                 all_events, page_number, requests, events, cal, files>>

\* main up to the first test of the loop in fetch_events
Configure ==
  /\ pc = "main_start" /\ env.NYC_API_KEY.set
  /\ categories' = parse_comma_separated(env.CATEGORIES)
  /\ boroughs' = parse_comma_separated(env.BOROUGHS)
  /\ max_pages' = DefaultMaxPages
  /\ all_events' = <<>>
  /\ page_number' = 1
  /\ pc' = "fetch_loop"
  /\ UNCHANGED <<caller, env, api, requests, events, cal, files>>

\* mutation of CallBuild: build_calendar is called with an empty list
CallBuild_NoEvents ==
  /\ pc = "main_fetched"
  /\ pc' = "build"
  /\ events' = <<>>
  /\ UNCHANGED <<caller, env, api, max_pages, categories, boroughs,
                 all_events, page_number, requests, cal, files>>

\* main after fetch_events returned: warn if empty, call build_calendar
CallBuild ==
  /\ pc = "main_fetched"
  /\ pc' = "build"
  /\ UNCHANGED <<caller, env, api, max_pages, categories, boroughs,
                 all_events, page_number, requests, events, cal, files>>

main == MissingKey \/ Configure \/ CallBuild

\* ----------------------------------------------------------------- runs
ApisDirect == {[pages |-> s, mix |-> 1] : s \in Scripts(MaxPagesDirect + 1)}
NoEnv == [NYC_API_KEY |-> Unset, CATEGORIES |-> Unset, BOROUGHS |-> Unset]
ArgLists == {<<>>, << <<"a">> >>}
ShapeSet == {Shapes[i] : i \in 1..Len(Shapes)}
EventLists == SeqsUpTo(ShapeSet, MaxEvents)

InitCommon ==
  /\ all_events = <<>> /\ page_number = 1 /\ requests = <<>>
  /\ cal = {} /\ files = <<>>

\* python nyc_events_calendar.py
InitMain ==
  /\ caller = "main" /\ pc = "main_start"
  /\ \/ /\ env \in [NYC_API_KEY : {Unset}, CATEGORIES : EnvValues, BOROUGHS : EnvValues]
        /\ api = NoApi
     \/ /\ env \in [NYC_API_KEY : {SomeKey}, CATEGORIES : EnvValues, BOROUGHS : EnvValues]
        /\ api \in ApisEnv
     \/ /\ env = [NYC_API_KEY |-> SomeKey, CATEGORIES |-> SomeFilter, BOROUGHS |-> Unset]
        /\ api \in ApisMain
  /\ max_pages = DefaultMaxPages /\ categories = <<>> /\ boroughs = <<>>
  /\ events = <<>>
  /\ InitCommon

\* fetch_events(..., categories, boroughs, max_pages=N)
InitFetch ==
  /\ caller = "fetch_events" /\ pc = "fetch_loop"
  /\ env = NoEnv
  /\ max_pages \in -1..MaxPagesDirect
  /\ api \in ApisDirect
  /\ categories \in ArgLists /\ boroughs \in ArgLists
  /\ events = <<>>
  /\ InitCommon

\* build_calendar(events, output_path)
InitBuild ==
  /\ caller = "build_calendar" /\ pc = "build"
  /\ env = NoEnv /\ api = NoApi
  /\ max_pages = DefaultMaxPages /\ categories = <<>> /\ boroughs = <<>>
  /\ events \in EventLists
  /\ InitCommon

Init == InitMain \/ InitFetch \/ InitBuild

Next == fetch_events \/ build_calendar \/ main

Spec == Init /\ [][Next]_vars

\* the program is one thread that runs each statement it has reached
FairSpec == Spec /\ WF_vars(Next)

\* ------------------------------------------------------------ properties
Max(a, b) == IF a >= b THEN a ELSE b

\* fetch_events has returned a value to its caller
Returned == caller # "build_calendar" /\ pc \in {"main_fetched", "build", "done"}
\* an exception left fetch_events
Escaped == caller # "build_calendar" /\ pc \in {"raised", "exit1"} /\ requests # <<>>
FetchOver == Returned \/ Escaped

\* the answer the API gave to the k-th request
Answer(k) == Respond(api, requests[k].pageNumber)

\* a 200 answer whose body is a JSON object
Successful(r) == r.status = 200 /\ r.body \in {"nokey", "null", "events"}
\* the records of a successful answer to a request for page p
RecordsOf(r, p) == IF r.body = "events" THEN ApiRecords(api.mix, p, r.n) ELSE <<>>

\* the records of the answers to the first k requests, in request order
RECURSIVE Collected(_)
Collected(k) ==
  IF k = 0 THEN <<>>
  ELSE Collected(k - 1) \o
         (IF Successful(Answer(k)) THEN RecordsOf(Answer(k), requests[k].pageNumber)
          ELSE <<>>)

\* C1: one call of fetch_events issues at most max(max_pages, 0) requests,
\* whatever the API answers, also when every page is full.
C1_AtMostCeilingRequests == Len(requests) <= Max(max_pages, 0)

C1_Witness ==
  /\ caller = "fetch_events" /\ pc = "done" /\ max_pages = 2
  /\ Len(requests) = 2
  /\ \A k \in 1..2 : Answer(k).body = "events" /\ Answer(k).n >= PageSize

\* C2 as stated: once the call is over, every successful page of 10 or
\* more records was followed by a request for the next page, and a
\* successful page of fewer than 10 records was the last request.
C2_Original ==
  FetchOver =>
    \A k \in 1..Len(requests) :
      Successful(Answer(k)) =>
        /\ Len(RecordsOf(Answer(k), k)) >= PageSize => Len(requests) > k
        /\ Len(RecordsOf(Answer(k), k)) < PageSize => Len(requests) = k

\* C2 amended: once the call is over, every successful page of 10 or more
\* records whose number is below max_pages was followed by a request for
\* the next page number; a successful page of fewer than 10 records, and a
\* page whose number is max_pages, was the last request.
C2_NextPageUnlessCeiling ==
  FetchOver =>
    \A k \in 1..Len(requests) :
      /\ Successful(Answer(k)) /\ Len(RecordsOf(Answer(k), k)) >= PageSize
           /\ requests[k].pageNumber < max_pages
           => /\ Len(requests) > k
              /\ requests[k + 1].pageNumber = requests[k].pageNumber + 1
      /\ Successful(Answer(k)) /\ Len(RecordsOf(Answer(k), k)) < PageSize
           => Len(requests) = k
      /\ requests[k].pageNumber = max_pages => Len(requests) = k

C2_Witness ==
  /\ pc = "done" /\ caller = "fetch_events" /\ max_pages = 2
  /\ Len(requests) = 2
  /\ Answer(1).body = "events" /\ Answer(1).n = PageSize
  /\ Answer(2).body = "events" /\ Answer(2).n = PageSize - 1

\* C3: when the request for page k is answered with 401, it is the last
\* request and the call returns exactly the records of pages 1..k-1.
C3_UnauthorizedStops ==
  \A k \in 1..Len(requests) :
    Answer(k).status = 401 =>
      /\ Len(requests) = k
      /\ requests[k].pageNumber = k
      /\ FetchOver => Returned /\ events = Collected(k - 1)
      /\ all_events = Collected(k - 1)

C3_Witness ==
  /\ Returned /\ Len(requests) = 2 /\ Answer(2).status = 401
  /\ Len(events) >= PageSize

\* C4: when the request for page k fails at transport level or is answered
\* with a status other than 200 and 401, it is the last request (no retry,
\* no later page) and the call returns exactly the records of pages 1..k-1.
C4_FailureStops ==
  \A k \in 1..Len(requests) :
    Answer(k).status \notin {200, 401} =>
      /\ Len(requests) = k
      /\ requests[k].pageNumber = k
      /\ FetchOver => Returned /\ events = Collected(k - 1)
      /\ all_events = Collected(k - 1)

C4_Witness ==
  /\ Returned /\ Len(requests) = 2 /\ Answer(2).status = TransportFailure
  /\ Len(events) >= PageSize

\* C5: when the first successful page has no "events" field or an empty
\* one, the call returns the empty sequence after exactly one request.
C5_EmptyFirstPage ==
  \A k \in 1..Len(requests) :
    /\ Successful(Answer(k))
    /\ \A j \in 1..(k - 1) : ~Successful(Answer(j))
    /\ RecordsOf(Answer(k), k) = <<>>
    => /\ Len(requests) = 1
       /\ FetchOver => Returned /\ events = <<>>
       /\ all_events = <<>>

C5_Witness ==
  /\ Returned /\ Len(requests) = 1 /\ Answer(1).status = 200
  /\ Answer(1).body = "nokey" /\ events = <<>> /\ max_pages >= 2

\* C6: the returned sequence is the concatenation, in page order, of the
\* record lists of the successful pages, each in the order the API gave.
C6_ConcatenationInPageOrder ==
  /\ all_events = Collected(Len(requests))
  /\ Returned => events = Collected(Len(requests))
  /\ \A k \in 1..Len(requests) : requests[k].pageNumber = k

C6_Witness ==
  /\ Returned /\ Len(requests) = 3 /\ Len(events) > 2 * PageSize
  /\ Answer(3).n = 3

\* build_calendar has run to its end
Built == caller # "fetch_events" /\ pc = "done"

\* constructing an entry from item raises an error
Fails(item) == BeginRaises(item) \/ EndRaises(item) \/ JoinRaises(item)

EntriesOf(i) == {e \in cal : e.uid = i}

\* the script is a run of full pages followed by one short page
FullThenShort(s) ==
  /\ Len(s) >= 1
  /\ \A k \in 1..(Len(s) - 1) : s[k] \in FullResponses
  /\ s[Len(s)].status = 200 /\ s[Len(s)].body = "events" /\ s[Len(s)].n < PageSize

\* every record of the script maps without error
AllMap(a) ==
  \A p \in 1..Len(a.pages) : \A i \in 1..a.pages[p].n : ~Fails(ApiRecord(a.mix, p, i))

RECURSIVE ScriptRecords(_, _)
ScriptRecords(s, k) == IF k = 0 THEN 0 ELSE ScriptRecords(s, k - 1) + s[k].n

\* C7 as stated: main, full pages then one short page, all records map:
\* as many requests as pages up to the short one, as many entries written
\* as records.
C7_Original ==
  caller = "main" /\ pc = "done" /\ FullThenShort(api.pages) /\ AllMap(api)
    => /\ Len(requests) = Len(api.pages)
       /\ Len(files) = 1
       /\ Cardinality(files[1]) = ScriptRecords(api.pages, Len(api.pages))

\* C7 amended: the same, provided the short page is one of the first
\* max_pages = 5 pages; 10 records then 3 records give 2 requests and 13
\* entries.
C7_EndToEndWithinCeiling ==
  caller = "main" /\ pc = "done" /\ FullThenShort(api.pages) /\ AllMap(api)
    /\ Len(api.pages) <= DefaultMaxPages
    => /\ Len(requests) = Len(api.pages)
       /\ Len(files) = 1
       /\ Cardinality(files[1]) = ScriptRecords(api.pages, Len(api.pages))
       /\ (api.pages = <<Resp(200, "events", 10), Resp(200, "events", 3)>>
             => Len(requests) = 2 /\ Cardinality(files[1]) = 13)

C7_Witness ==
  /\ caller = "main" /\ pc = "done" /\ AllMap(api)
  /\ api.pages = <<Resp(200, "events", 10), Resp(200, "events", 3)>>
  /\ Len(requests) = 2 /\ Len(files) = 1 /\ Cardinality(files[1]) = 13

\* C8: build_calendar drops a record whose construction raises and goes on
\* with the others: the calendar holds exactly one, completely filled,
\* entry per record that constructs without error and none for the rest.
C8_SkipFailingRecordOnly ==
  Built =>
    /\ \A i \in 1..Len(events) :
         /\ Fails(events[i]) => EntriesOf(i) = {}
         /\ ~Fails(events[i]) =>
              /\ Cardinality(EntriesOf(i)) = 1
              /\ \A e \in EntriesOf(i) : e.name # None /\ e.categories # None
    /\ \A e \in cal : e.uid \in 1..Len(events)
    /\ Len(files) = 1 /\ files[1] = {i \in 1..Len(events) : ~Fails(events[i])}

C8_Witness ==
  /\ Built /\ Len(events) = 3
  /\ ~Fails(events[1]) /\ Fails(events[2]) /\ ~Fails(events[3])
  /\ files[1] = {1, 3}

NoStartField(item) == "startDate" \notin DOMAIN item /\ "start" \notin DOMAIN item

\* C9 as stated: every record without startDate and start gives an entry,
\* with no start time.
C9_Original ==
  Built =>
    \A i \in 1..Len(events) :
      NoStartField(events[i]) => \E e \in cal : e.uid = i /\ e.begin = None

\* C9 amended: a record without startDate and start whose other fields
\* raise no error (end time, categories) gives an entry with no start time.
C9_NoStartStillAnEntry ==
  Built =>
    \A i \in 1..Len(events) :
      NoStartField(events[i]) /\ ~EndRaises(events[i]) /\ ~JoinRaises(events[i])
        => \E e \in cal : e.uid = i /\ e.begin = None

C9_Witness ==
  /\ Built /\ Len(events) = 1 /\ NoStartField(events[1])
  /\ \E e \in cal : e.uid = 1 /\ e.begin = None /\ e.end = "T1"

\* the text holds an item that is not blank
HasItem(value) == value.set /\ \E i \in 1..Len(value.val) : value.val[i] \notin {",", " "}

\* C10: a request carries "categories" exactly when the category filter is
\* non-empty and "boroughs" exactly when the borough filter is non-empty;
\* in a run of main that is exactly when the environment text holds an
\* item, so with CATEGORIES / BOROUGHS unset the key is never sent.
C10_FilterKeysOnlyIfNonEmpty ==
  \A k \in 1..Len(requests) :
    /\ "categories" \in DOMAIN requests[k] <=> categories # <<>>
    /\ "boroughs" \in DOMAIN requests[k] <=> boroughs # <<>>
    /\ "categories" \in DOMAIN requests[k] => requests[k].categories = categories
    /\ "boroughs" \in DOMAIN requests[k] => requests[k].boroughs = boroughs
    /\ caller = "main" =>
         /\ "categories" \in DOMAIN requests[k] <=> HasItem(env.CATEGORIES)
         /\ "boroughs" \in DOMAIN requests[k] <=> HasItem(env.BOROUGHS)

C10_Witness ==
  /\ caller = "main" /\ Len(requests) = 2
  /\ env.CATEGORIES = Unset /\ env.BOROUGHS.set /\ env.BOROUGHS.val = <<" ">>
  /\ \A k \in 1..2 : "categories" \notin DOMAIN requests[k] /\ "boroughs" \notin DOMAIN requests[k]

\* C11: the categories field of an entry is the record's category list
\* joined with commas in list order, nothing added at either end:
\* ["art","free"] gives "art,free", one category gives that category, and a
\* record without a categories field gives the empty string.
C11_CategoriesCommaJoined ==
  Built =>
    \A i \in 1..Len(events) : \A e \in EntriesOf(i) :
      /\ "categories" \notin DOMAIN events[i] => e.categories = ""
      /\ "categories" \in DOMAIN events[i] =>
           /\ events[i]["categories"] = <<"art", "free">> => e.categories = "art,free"
           /\ events[i]["categories"] = <<"art">> => e.categories = "art"

C11_Witness ==
  /\ Built /\ caller = "build_calendar" /\ Len(events) = 2
  /\ events[1] = Shapes[1] /\ events[2] = Shapes[2]
  /\ \E e \in EntriesOf(1) : e.categories = "art,free"
  /\ \E e \in EntriesOf(2) : e.categories = ""

\* C12: in a run of main without NYC_API_KEY no request is ever issued and
\* no file is ever written; the run leaves its start only to exit with
\* code 1.
C12_MissingKeyIsFatal ==
  caller = "main" /\ ~env.NYC_API_KEY.set =>
    /\ requests = <<>>
    /\ files = <<>>
    /\ pc \in {"main_start", "exit1"}

C12_Witness ==
  /\ caller = "main" /\ ~env.NYC_API_KEY.set /\ pc = "exit1"
  /\ requests = <<>> /\ files = <<>>

\* fetch_events has just returned to main
MainFetched == caller = "main" /\ pc = "main_fetched"

\* C13: a run of main in which fetch_events returned writes the calendar
\* document exactly once, with zero entries when no event was fetched, and
\* ends normally: it never exits with code 1 after that point.
C13_WritesExactlyOnce ==
  /\ [](caller = "main" => Len(files) <= 1)
  /\ [](caller = "main" /\ pc = "done" =>
          /\ Len(files) = 1
          /\ files[1] = Serialize(cal)
          /\ events = <<>> => files[1] = {})
  /\ [][caller = "main" /\ pc \in {"main_fetched", "build"}
          => pc' \in {"build", "done"}]_vars
  /\ (MainFetched ~> (pc = "done" /\ Len(files) = 1))

C13_Witness ==
  /\ caller = "main" /\ pc = "done" /\ requests # <<>>
  /\ events = <<>> /\ files = << {} >>

\* C14: whatever the API answers, a 200 answer whose body is no JSON object
\* included, fetch_events ends by returning what it accumulated: no error
\* leaves it and the records of the earlier pages are not lost.
C14_AlwaysReturnsAccumulated ==
  FetchOver => Returned /\ events = Collected(Len(requests))

\* the first n pages of the API are all full
AllFull(a, n) ==
  n <= Len(a.pages) /\ \A p \in 1..n : a.pages[p] \in FullResponses

\* the records of the first n pages of the API, read from those pages alone
RECURSIVE PrefixRecords(_, _)
PrefixRecords(a, n) ==
  IF n = 0 THEN <<>>
  ELSE PrefixRecords(a, n - 1) \o ApiRecords(a.mix, n, a.pages[n].n)

\* C15: when the first max_pages pages are all full, the call returns
\* without error, never asks for page max_pages + 1, and its value is
\* determined by those first pages alone; so two runs that differ only in
\* what page max_pages + 1 holds (nothing, or more records) return the same
\* sequence.
C15_TruncationIsSilent ==
  /\ caller # "build_calendar" /\ pc \notin {"main_start", "fetch_loop"}
  /\ max_pages >= 1 /\ AllFull(api, max_pages)
  => /\ Returned
     /\ Len(requests) = max_pages
     /\ events = PrefixRecords(api, max_pages)

C15_Witness ==
  /\ caller = "fetch_events" /\ Returned /\ max_pages = 2
  /\ AllFull(api, 3) /\ Len(requests) = 2
  /\ events = PrefixRecords(api, 2)

\* the last request got no records, or fewer than a full page
EndedByExhaustion ==
  /\ requests # <<>>
  /\ Successful(Answer(Len(requests)))
  /\ Len(RecordsOf(Answer(Len(requests)), Len(requests))) < PageSize
\* the last request failed: no answer, a status other than 200, a bad body
EndedByFailure ==
  /\ requests # <<>>
  /\ ~Successful(Answer(Len(requests)))
\* as many requests were issued as the ceiling allows
EndedByCeiling == Len(requests) = Max(max_pages, 0)

Yield(v) == IF Truthy(v) THEN v ELSE None
Has(item, key) == key \in DOMAIN item
HasValue(item, key) == Has(item, key) /\ Truthy(item[key])

\* C17 as stated: the time comes from the primary field whenever the record
\* has it, from the alternate field only when the primary field is absent,
\* and is unset when neither yields a value.
C17_Original ==
  Built =>
    \A i \in 1..Len(events) : \A e \in EntriesOf(i) :
      /\ Has(events[i], "startDate") => e.begin = Yield(events[i]["startDate"])
      /\ ~Has(events[i], "startDate") /\ Has(events[i], "start")
           => e.begin = Yield(events[i]["start"])
      /\ ~Has(events[i], "startDate") /\ ~Has(events[i], "start") => e.begin = None
      /\ Has(events[i], "endDate") => e.end = Yield(events[i]["endDate"])
      /\ ~Has(events[i], "endDate") /\ Has(events[i], "end")
           => e.end = Yield(events[i]["end"])
      /\ ~Has(events[i], "endDate") /\ ~Has(events[i], "end") => e.end = None

\* C17 amended: the time comes from the primary field whenever the record
\* has it with a non-empty value, from the alternate field when the primary
\* field is absent or empty (null, empty string) and the alternate field has
\* a non-empty value, and is unset otherwise.
C17_PrimaryThenAlternate ==
  Built =>
    \A i \in 1..Len(events) : \A e \in EntriesOf(i) :
      /\ HasValue(events[i], "startDate") => e.begin = events[i]["startDate"]
      /\ ~HasValue(events[i], "startDate") /\ HasValue(events[i], "start")
           => e.begin = events[i]["start"]
      /\ ~HasValue(events[i], "startDate") /\ ~HasValue(events[i], "start")
           => e.begin = None
      /\ HasValue(events[i], "endDate") => e.end = events[i]["endDate"]
      /\ ~HasValue(events[i], "endDate") /\ HasValue(events[i], "end")
           => e.end = events[i]["end"]
      /\ ~HasValue(events[i], "endDate") /\ ~HasValue(events[i], "end")
           => e.end = None

C17_Witness ==
  /\ Built /\ caller = "build_calendar" /\ Len(events) = 3
  /\ events[1] = Shapes[6] /\ events[2] = Shapes[3] /\ events[3] = Shapes[5]
  /\ \E e \in EntriesOf(1) : e.begin = "T1" /\ e.end = "T2"
  /\ \E e \in EntriesOf(2) : e.begin = "T1" /\ e.end = "T2"
  /\ \E e \in EntriesOf(3) : e.begin = "T2" /\ e.end = None

\* the query parameters of a request other than the page number
OtherParams(r) == [key \in DOMAIN r \ {"pageNumber"} |-> r[key]]

\* C18: within one call of fetch_events the k-th request asks for page k
\* (page 1 first, then one more each time, none twice, none skipped), there
\* are at most max_pages requests, and every request of the call carries
\* the same other query parameters; each step sends at most one request,
\* the one for the page after the last page requested.
C18_PagesInOrder ==
  /\ [](\A k \in 1..Len(requests) :
          /\ requests[k].pageNumber = k
          /\ k <= max_pages
          /\ OtherParams(requests[k]) = OtherParams(requests[1]))
  /\ [][requests' # requests =>
          /\ Len(requests') = Len(requests) + 1
          /\ SubSeq(requests', 1, Len(requests)) = requests
          /\ requests'[Len(requests')].pageNumber = Len(requests) + 1]_vars

C18_Witness ==
  /\ caller = "main" /\ FetchOver
  /\ Len(requests) = DefaultMaxPages
  /\ requests[DefaultMaxPages].pageNumber = DefaultMaxPages
  /\ "categories" \in DOMAIN requests[1]

\* build_calendar has been called
BuilderStarted == pc \in {"build", "done"}

\* C19: in a run of main, build_calendar starts only from the point where
\* fetch_events has returned, no request is sent from then on, and the list
\* build_calendar works on is the list fetch_events returned: the records
\* it accumulated, unchanged by main in between.
C19_FetchThenBuild ==
  /\ [][caller = "main" /\ BuilderStarted' /\ ~BuilderStarted
          => pc = "main_fetched" /\ pc' = "build" /\ events' = events]_vars
  /\ [][caller = "main" /\ (BuilderStarted \/ BuilderStarted')
          => requests' = requests /\ events' = events]_vars
  /\ [](caller = "main" /\ BuilderStarted
          => events = all_events /\ events = Collected(Len(requests)))
  /\ [](caller = "main" /\ pc = "done" => cal = ForLoop(all_events, 1, {}))

C19_Witness ==
  /\ caller = "main" /\ pc = "done"
  /\ Len(requests) >= 2 /\ Len(events) > PageSize
  /\ cal # {} /\ Len(files) = 1

====
